---- MODULE Spec2Model ----
(***************************************************************************)
(* ChargeGuard: the App component (alarm condition evaluator) together     *)
(* with the three collaborators it drives or consumes: the battery hook,   *)
(* the wake-lock hook and the alarm sound.                                 *)
(*                                                                         *)
(* The charge fraction `level` (a float in [0,1]) is kept in thousandths,  *)
(* so that Math.round(level * 100) is a real rounding and not the          *)
(* identity: 794 is 0.794 and rounds to 79, 795 is 0.795 and rounds to 80. *)
(*                                                                         *)
(* React scheduling: a state update made by a host callback (battery       *)
(* event, wake-lock promise, host release) is queued and rendered later    *)
(* (`dirty`); several of them may be batched into one render.  A user      *)
(* event (click, settings change) is rendered synchronously, together      *)
(* with whatever was queued.  Every render is followed by the alarm effect *)
(* when, and only when, its dependency array differs from the one of the   *)
(* render the effect last ran for.                                         *)
(***************************************************************************)
EXTENDS Integers, Sequences, FiniteSets

VARIABLES
    supported, loading, level, charging,   \* useBattery()
    isLocked, wakeLockError,               \* useWakeLock()
    threshold, isAlarmEnabled,             \* useState: configuration
    isAlarmActive, hasInteracted,          \* useState: alarm flag, gate
    running,                               \* alarmSound: is the tone on
    mounted,                               \* the component is mounted
    dirty,                                 \* a queued update awaits a render
    deps,                                  \* dependency array of the last effect run
    screen,                                \* which screen the last render returned
    lockedView,                            \* isLocked as the last render saw it
    calls,                                 \* calls made to alarmSound by the last step
    prevRunning,                           \* running, before the last step
    lockOp,                                \* wake-lock request made by the last step
    gateWrites,                            \* setHasInteracted calls so far
    event                                  \* the callback the last step ran

vars == <<supported, loading, level, charging, isLocked, wakeLockError,
          threshold, isAlarmEnabled, isAlarmActive, hasInteracted, running,
          mounted, dirty, deps, screen, lockedView, calls, prevRunning, lockOp,
          gateWrites, event>>

batteryVars == <<supported, loading, level, charging>>
lockVars    == <<isLocked, wakeLockError>>
configVars  == <<threshold, isAlarmEnabled>>

(* Values the inputs are drawn from. *)
Levels     == {0, 500, 790, 794, 795, 800, 1000}
Thresholds == {0, 50, 80, 100}
DefaultThreshold == 80

(***************************************************************************)
(* Derived state of a render.                                              *)
(***************************************************************************)
batteryPercent(lvl) == (lvl + 5) \div 10

isThresholdReachedGt(lvl, thr) == batteryPercent(lvl) > thr
isThresholdReached(lvl, thr) == batteryPercent(lvl) >= thr

shouldAlarmNoCharging(s, c, r, e, h) == s /\ r /\ e /\ h
shouldAlarmNoGate(s, c, r, e, h) == s /\ c /\ r /\ e
shouldAlarm(s, c, r, e, h) == s /\ c /\ r /\ e /\ h

EffectDepsMissingEnabled(s, c, r, e, h) == <<s, c, r, h>>
EffectDeps(s, c, r, e, h) == <<s, c, r, e, h>>

ScreenNoUnsupported(l, s) == IF l THEN "loading" ELSE "main"
Screen(l, s) ==
    IF l THEN "loading"
    ELSE IF ~s THEN "unsupported"
    ELSE "main"

(***************************************************************************)
(* alarmSound: start() and stop() are idempotent, the state is {running}.  *)
(***************************************************************************)
AlarmStart(r) == TRUE
AlarmStop(r) == FALSE

(***************************************************************************)
(* The alarm effect, run with the values of the render it belongs to.      *)
(***************************************************************************)
AlarmEffectOnChange ==
    LET sa == shouldAlarm(supported', charging',
                          isThresholdReached(level', threshold'),
                          isAlarmEnabled', hasInteracted') IN
    /\ isAlarmActive' = sa
    /\ running' = IF sa = isAlarmActive THEN running
                  ELSE IF sa THEN AlarmStart(running) ELSE AlarmStop(running)
    /\ calls' = IF sa = isAlarmActive THEN <<>>
                ELSE IF sa THEN <<"start">> ELSE <<"stop">>
AlarmEffectStartOnly ==
    LET sa == shouldAlarm(supported', charging',
                          isThresholdReached(level', threshold'),
                          isAlarmEnabled', hasInteracted') IN
    /\ isAlarmActive' = sa
    /\ running' = IF sa THEN AlarmStart(running) ELSE running
    /\ calls' = IF sa THEN <<"start">> ELSE <<>>
AlarmEffect ==
    LET sa == shouldAlarm(supported', charging',
                          isThresholdReached(level', threshold'),
                          isAlarmEnabled', hasInteracted') IN
    /\ isAlarmActive' = sa
    /\ running' = IF sa THEN AlarmStart(running) ELSE AlarmStop(running)
    /\ calls' = IF sa THEN <<"start">> ELSE <<"stop">>

(***************************************************************************)
(* A render of the queued state, and the effect when its dependencies      *)
(* changed.  Used after the inputs of the step have been assigned.         *)
(***************************************************************************)
Commit ==
    /\ dirty' = FALSE
    /\ screen' = Screen(loading', supported')
    /\ lockedView' = isLocked'
    /\ prevRunning' = running
    /\ deps' = EffectDeps(supported', charging',
                          isThresholdReached(level', threshold'),
                          isAlarmEnabled', hasInteracted')
    /\ IF deps' # deps
       THEN AlarmEffect
       ELSE /\ UNCHANGED <<isAlarmActive, running>>
            /\ calls' = <<>>

(* A host callback queues its update: no render, no call, in this step. *)
Queue ==
    /\ dirty' = TRUE
    /\ calls' = <<>>
    /\ prevRunning' = running
    /\ UNCHANGED <<isAlarmActive, running, deps, screen, lockedView>>

(***************************************************************************)
(* State after the component has mounted: the first render shows the       *)
(* loading screen and the first effect run has called stop().              *)
(***************************************************************************)
Init ==
    /\ supported \in BOOLEAN
    /\ loading = TRUE
    /\ level = 0
    /\ charging = FALSE
    /\ isLocked = FALSE
    /\ wakeLockError = "none"
    /\ threshold = DefaultThreshold
    /\ isAlarmEnabled = TRUE
    /\ isAlarmActive = FALSE
    /\ hasInteracted = FALSE
    /\ running = FALSE
    /\ mounted = TRUE
    /\ dirty = FALSE
    /\ deps = EffectDeps(supported, charging,
                         isThresholdReached(level, threshold),
                         isAlarmEnabled, hasInteracted)
    /\ screen = Screen(loading, supported)
    /\ lockedView = FALSE
    /\ calls = <<"stop">>
    /\ prevRunning = FALSE
    /\ lockOp = "none"
    /\ gateWrites = "never"
    /\ event = "mount"

(***************************************************************************)
(* useBattery                                                              *)
(***************************************************************************)
BatteryUnavailable ==
    /\ mounted /\ loading
    /\ event' = "batteryUnavailable"
    /\ UNCHANGED gateWrites
    /\ supported' = FALSE
    /\ loading' = FALSE
    /\ level' = 0
    /\ charging' = FALSE
    /\ lockOp' = "none"
    /\ Queue
    /\ UNCHANGED <<lockVars, configVars, hasInteracted, mounted>>

BatteryAvailable(lvl, chg) ==
    /\ mounted /\ loading
    /\ event' = "batteryAvailable"
    /\ UNCHANGED gateWrites
    /\ supported' = TRUE
    /\ loading' = FALSE
    /\ level' = lvl
    /\ charging' = chg
    /\ lockOp' = "none"
    /\ Queue
    /\ UNCHANGED <<lockVars, configVars, hasInteracted, mounted>>

BatteryChange(lvl, chg) ==
    /\ mounted /\ ~loading /\ supported
    /\ event' = "batteryChange"
    /\ UNCHANGED gateWrites
    /\ <<lvl, chg>> # <<level, charging>>
    /\ level' = lvl
    /\ charging' = chg
    /\ lockOp' = "none"
    /\ Queue
    /\ UNCHANGED <<supported, loading, lockVars, configVars, hasInteracted, mounted>>

(***************************************************************************)
(* useWakeLock                                                             *)
(***************************************************************************)
requestWakeLock(ok) ==
    /\ isLocked' = ok
    /\ wakeLockError' = IF ok THEN "none" ELSE "error"
    /\ lockOp' = "request"

releaseWakeLock(ok) ==
    /\ isLocked' = FALSE
    /\ wakeLockError' = IF isLocked /\ ~ok THEN "error" ELSE wakeLockError
    /\ lockOp' = "release"

HostRelease ==
    /\ mounted /\ isLocked
    /\ event' = "hostRelease"
    /\ UNCHANGED gateWrites
    /\ isLocked' = FALSE
    /\ lockOp' = "none"
    /\ Queue
    /\ UNCHANGED <<batteryVars, wakeLockError, configVars, hasInteracted, mounted>>

(***************************************************************************)
(* App: user events of the main screen                                     *)
(***************************************************************************)
setHasInteracted(v) ==
    /\ hasInteracted' = v
    /\ gateWrites' = IF gateWrites = "never" THEN "once" ELSE "again"

handleInteractionToggle ==
    setHasInteracted(~hasInteracted)
handleInteraction ==
    IF ~hasInteracted
    THEN setHasInteracted(TRUE)
    ELSE UNCHANGED <<hasInteracted, gateWrites>>

Tap ==
    /\ mounted /\ screen = "main"
    /\ event' = "tap"
    /\ handleInteraction
    /\ lockOp' = "none"
    /\ UNCHANGED <<batteryVars, lockVars, configVars, mounted>>
    /\ Commit

setThreshold(t) ==
    /\ mounted /\ screen = "main"
    /\ event' = "setThreshold"
    /\ UNCHANGED gateWrites
    /\ threshold' = t
    /\ lockOp' = "none"
    /\ UNCHANGED <<batteryVars, lockVars, isAlarmEnabled, hasInteracted, mounted>>
    /\ Commit

setAlarmEnabled(b) ==
    /\ mounted /\ screen = "main"
    /\ event' = "setAlarmEnabled"
    /\ UNCHANGED gateWrites
    /\ isAlarmEnabled' = b
    /\ lockOp' = "none"
    /\ UNCHANGED <<batteryVars, lockVars, threshold, hasInteracted, mounted>>
    /\ Commit

toggleWakeLockInverted(ok) ==
    IF lockedView THEN requestWakeLock(ok) ELSE releaseWakeLock(ok)
toggleWakeLock(ok) ==
    IF lockedView THEN releaseWakeLock(ok) ELSE requestWakeLock(ok)

ToggleWakeLock(ok) ==
    /\ mounted /\ screen = "main"
    /\ event' = "toggleWakeLock"
    /\ UNCHANGED gateWrites
    /\ toggleWakeLock(ok)
    /\ Queue
    /\ UNCHANGED <<batteryVars, configVars, hasInteracted, mounted>>

(***************************************************************************)
(* React: the render of queued updates; the unmount                        *)
(***************************************************************************)
Render ==
    /\ mounted /\ dirty
    /\ event' = "render"
    /\ UNCHANGED gateWrites
    /\ lockOp' = "none"
    /\ UNCHANGED <<batteryVars, lockVars, configVars, hasInteracted, mounted>>
    /\ Commit

UnmountNoStop ==
    /\ mounted
    /\ event' = "unmount"
    /\ UNCHANGED gateWrites
    /\ mounted' = FALSE
    /\ calls' = <<>>
    /\ prevRunning' = running
    /\ lockOp' = "none"
    /\ UNCHANGED <<batteryVars, lockVars, configVars, hasInteracted,
                   isAlarmActive, running, dirty, deps, screen, lockedView>>
Unmount ==
    /\ mounted
    /\ event' = "unmount"
    /\ UNCHANGED gateWrites
    /\ mounted' = FALSE
    /\ running' = AlarmStop(running)
    /\ calls' = <<"stop">>
    /\ prevRunning' = running
    /\ lockOp' = "none"
    /\ UNCHANGED <<batteryVars, lockVars, configVars, hasInteracted,
                   isAlarmActive, dirty, deps, screen, lockedView>>

Next ==
    \/ BatteryUnavailable
    \/ \E lvl \in Levels, chg \in BOOLEAN : BatteryAvailable(lvl, chg)
    \/ \E lvl \in Levels, chg \in BOOLEAN : BatteryChange(lvl, chg)
    \/ HostRelease
    \/ Tap
    \/ \E t \in Thresholds : setThreshold(t)
    \/ \E b \in BOOLEAN : setAlarmEnabled(b)
    \/ \E ok \in BOOLEAN : ToggleWakeLock(ok)
    \/ Render
    \/ Unmount

Spec == Init /\ [][Next]_vars

(***************************************************************************)
(* Properties                                                              *)
(***************************************************************************)

(* The alarm condition of the data model, over the current inputs, with    *)
(* the rounding written as a comparison of thousandths:                    *)
(* round(level * 100) >= threshold  iff  level + 0.005 >= threshold / 100. *)
AlarmPredicate ==
    /\ supported
    /\ charging
    /\ level + 5 >= 10 * threshold
    /\ isAlarmEnabled
    /\ hasInteracted

Settled == mounted /\ ~dirty

StartCalled(c) == \E i \in DOMAIN c : c[i] = "start"

(* C1: for every combination of supported, charging, level, threshold,     *)
(* enabled and granted, the value the evaluator computes is true iff all   *)
(* five conditions hold, the level being rounded to a whole percentage;    *)
(* 0.79 against 80 gives false and 0.80 against 80 gives true.             *)
C1_TruthTable ==
    /\ \A s \in BOOLEAN, c \in BOOLEAN, e \in BOOLEAN, h \in BOOLEAN :
         \A l \in Levels, t \in Thresholds :
            shouldAlarm(s, c, isThresholdReached(l, t), e, h)
              <=> (s /\ c /\ (l + 5 >= 10 * t) /\ e /\ h)
    /\ ~shouldAlarm(TRUE, TRUE, isThresholdReached(790, 80), TRUE, TRUE)
    /\ shouldAlarm(TRUE, TRUE, isThresholdReached(800, 80), TRUE, TRUE)
    /\ Settled => (isAlarmActive <=> AlarmPredicate)

C1_Witness ==
    /\ Settled /\ event = "render"
    /\ supported /\ charging /\ isAlarmEnabled /\ hasInteracted
    /\ level = 795 /\ threshold = 80
    /\ isAlarmActive

(* C2: after every recomputation the alarm signal runs exactly when the    *)
(* published isAlarmActive is true, and exactly when the alarm condition   *)
(* holds of the current inputs.                                            *)
C2_NoDrift ==
    /\ mounted => (running <=> isAlarmActive)
    /\ Settled => (running <=> AlarmPredicate)

C2_Witness ==
    /\ Settled /\ running /\ isAlarmActive
    /\ threshold # DefaultThreshold /\ level # 1000
    /\ gateWrites = "once" /\ event = "setThreshold"

(* C3 as stated: a recomputation whose dependencies changed while the      *)
(* alarm condition kept its value makes no call to the alarm signal.       *)
C3_Original ==
    [][(mounted' /\ deps' # deps /\ isAlarmActive' = isAlarmActive)
          => calls' = <<>>]_vars

(* C3 as amended: every recomputation makes exactly one call, start() when *)
(* the condition holds and stop() when it does not, also when the          *)
(* condition kept its value; start() is called only when the signal was    *)
(* evaluator was idle, and a render with unchanged dependencies makes no   *)
(* call.                                                                   *)
C3_Amended ==
    [][/\ (mounted' /\ deps' # deps)
            => /\ calls' = IF isAlarmActive' THEN <<"start">> ELSE <<"stop">>
               /\ running' = isAlarmActive'
       /\ (mounted' /\ deps' = deps) => calls' = <<>>
       /\ StartCalled(calls') => (~isAlarmActive /\ isAlarmActive')]_vars

C3_Witness ==
    /\ mounted /\ hasInteracted
    /\ calls = <<"stop">> /\ ~prevRunning /\ ~running

(* C4: when the evaluator is idle and the inputs come to satisfy the alarm *)
(* condition, the next recomputation makes it alarming with exactly one    *)
(* start(); start() is not called while the evaluator is alarming.         *)
C4_StartOnce ==
    [][/\ (~isAlarmActive /\ mounted' /\ ~dirty' /\ AlarmPredicate')
            => (isAlarmActive' /\ calls' = <<"start">>)
       /\ isAlarmActive => ~StartCalled(calls')]_vars

C4_Witness ==
    /\ Settled /\ event = "setAlarmEnabled"
    /\ calls = <<"start">> /\ ~prevRunning /\ running /\ isAlarmActive

(* C5: from the alarming state, the recomputation that sees charging false *)
(* clears isAlarmActive and calls stop() exactly once; start() is called   *)
(* only in a recomputation where charging is true and the condition holds. *)
C5_ChargingStops ==
    [][/\ (isAlarmActive /\ mounted' /\ ~dirty' /\ ~charging')
            => (~isAlarmActive' /\ calls' = <<"stop">>)
       /\ StartCalled(calls') => (charging' /\ AlarmPredicate')]_vars

C5_Witness ==
    /\ Settled /\ event = "render"
    /\ prevRunning /\ ~running /\ ~isAlarmActive /\ calls = <<"stop">>
    /\ ~charging
    /\ supported /\ isThresholdReached(level, threshold)
    /\ isAlarmEnabled /\ hasInteracted

(* C6: the unmount calls stop() whatever the state; it is the last call    *)
(* made, also when an input change was still queued, and the signal is not *)
(* running afterwards.                                                     *)
C6_Teardown ==
    ~mounted => /\ ~running
                /\ event = "unmount"
                /\ calls # <<>>
                /\ calls[Len(calls)] = "stop"

C6_Witness ==
    /\ ~mounted /\ prevRunning /\ ~running
    /\ dirty /\ ~charging /\ isAlarmActive

(* C7: the interaction gate starts false, the first tap sets it, once true *)
(* it stays true, and no later tap writes it again.                        *)
C7_GateMonotonic ==
    /\ [](hasInteracted <=> gateWrites = "once")
    /\ [][/\ event' = "tap" => hasInteracted'
          /\ hasInteracted => (hasInteracted' /\ gateWrites' = gateWrites)]_vars

C7_Witness ==
    /\ hasInteracted /\ event = "tap" /\ calls = <<>>
    /\ gateWrites = "once" /\ running

(* C8: once the battery facility has turned out unsupported it stays so,   *)
(* isAlarmActive stays false, start() is never called, the main screen is  *)
(* never shown and the rendered screen is the unsupported one.             *)
C8_Unsupported ==
    /\ []((~loading /\ ~supported)
            => /\ ~isAlarmActive /\ ~running /\ ~StartCalled(calls)
               /\ screen # "main"
               /\ ~dirty => screen = "unsupported")
    /\ [][(~loading /\ ~supported) => (~loading' /\ ~supported')]_vars

C8_Witness ==
    /\ ~loading /\ ~supported /\ Settled
    /\ screen = "unsupported" /\ event = "render"

(* C9: the alarm signal is started only when the interaction gate is       *)
(* granted and never runs while it is not.                                 *)
C9_GateNotBypassed ==
    /\ running => hasInteracted
    /\ StartCalled(calls) => hasInteracted

C9_Witness ==
    /\ Settled /\ ~hasInteracted /\ ~running
    /\ supported /\ charging /\ isThresholdReached(level, threshold)
    /\ isAlarmEnabled

====
